---------------------------- MODULE Spec2Model ----------------------------
(***************************************************************************)
(* Shift Overlap Finder (src/app.py).                                      *)
(*                                                                         *)
(* Three specifications over one set of variables:                         *)
(*   Spec        parse_pdf's line loop followed by the by_date aggregation *)
(*   SpecName    clean_name applied to bounded character strings           *)
(*   SpecOverlap overlap_days applied to bounded windows and queries       *)
(*                                                                         *)
(* Strings are sequences of one-character strings.  A date is its          *)
(* proleptic Gregorian ordinal (date.toordinal()), a datetime is the       *)
(* number of minutes ordinal * 1440 + minute of day, a time of day is its  *)
(* minute of day.                                                          *)
(***************************************************************************)
EXTENDS Integers, Sequences, FiniteSets, TLC

VARIABLES
    doc,           \* the lines consumed so far (text.splitlines(), all pages)
    current_date,  \* parse_pdf's current_date
    rows,          \* parse_pdf's rows
    src,           \* src[i]: index in doc of the line that appended rows[i]
    phase,         \* position of the program
    by_date,       \* date -> (name -> [start_dt, end_dt])
    raw,           \* argument of clean_name
    cleaned,       \* result of clean_name
    names,         \* overlap_days: argument names
    require_k,     \* overlap_days: argument require_k
    out            \* overlap_days: the rows of the returned frame

vars == <<doc, current_date, rows, src, phase, by_date, raw, cleaned,
          names, require_k, out>>

-----------------------------------------------------------------------------
(* Bounds *)

MaxRawLen == 5

-----------------------------------------------------------------------------
(* Characters and strings *)

UpperLetters == <<"A","B","C","D","E","F","G","H","I","J","K","L","M",
                  "N","O","P","Q","R","S","T","U","V","W","X","Y","Z">>

LowerLetters == <<"a","b","c","d","e","f","g","h","i","j","k","l","m",
                  "n","o","p","q","r","s","t","u","v","w","x","y","z">>

Range(s) == {s[i] : i \in DOMAIN s}

\* [A-Z]
AZ == Range(UpperLetters)

\* \d
Digit == {"0","1","2","3","4","5","6","7","8","9"}

\* \s
Space == {" "}

MinOf(S) == CHOOSE x \in S : \A y \in S : x <= y

MaxOf(S) == CHOOSE x \in S : \A y \in S : x >= y

\* [a-z]
az == Range(LowerLetters)

\* [A-Z0-9]
AZ09 == AZ \cup Digit

UpperOf == [c \in az |-> UpperLetters[CHOOSE i \in DOMAIN LowerLetters : LowerLetters[i] = c]]

\* str.upper(), one character
UpperChar(c) == IF c \in az THEN UpperOf[c] ELSE c

\* str.upper()
Upper(s) == [i \in DOMAIN s |-> UpperChar(s[i])]

\* the suffix of s that starts at its first character outside S
DropLeading(s, S) ==
    LET I == {i \in DOMAIN s : s[i] \notin S}
    IN  IF I = {} THEN <<>> ELSE SubSeq(s, MinOf(I), Len(s))

\* the prefix of s that ends at its last character outside S
DropTrailing(s, S) ==
    LET I == {i \in DOMAIN s : s[i] \notin S}
    IN  IF I = {} THEN <<>> ELSE SubSeq(s, 1, MaxOf(I))

\* str.strip()
Strip(s) == DropTrailing(DropLeading(s, Space), Space)

\* str.split(): the maximal runs of non-whitespace characters, in order
RECURSIVE Split(_)
Split(s) ==
    LET t == DropLeading(s, Space)
        I == {i \in DOMAIN t : t[i] \in Space}
    IN  IF t = <<>> THEN <<>>
        ELSE IF I = {} THEN <<t>>
        ELSE <<SubSeq(t, 1, MinOf(I) - 1)>> \o Split(SubSeq(t, MinOf(I), Len(t)))

\* " ".join(parts)
RECURSIVE Join(_)
Join(parts) ==
    IF parts = <<>> THEN <<>>
    ELSE IF Len(parts) = 1 THEN parts[1]
    ELSE parts[1] \o <<" ">> \o Join(Tail(parts))

\* str.startswith(p)
StartsWith(s, p) == Len(p) <= Len(s) /\ SubSeq(s, 1, Len(p)) = p

\* re.sub(r"^[^A-Z0-9]+", "", s)
StripLeadingJunk(s) ==
    LET I == {i \in DOMAIN s : s[i] \in AZ09}
    IN  IF I = {} THEN <<>> ELSE SubSeq(s, MinOf(I), Len(s))

\* re.sub(r"^\d+\s*-\s*", "", s)
StripLeadingCode(s) ==
    LET afterDigits == DropLeading(s, Digit)
        afterSpace  == DropLeading(afterDigits, Space)
    IN  IF /\ Len(afterDigits) < Len(s)
           /\ afterSpace # <<>>
           /\ afterSpace[1] = "-"
        THEN DropLeading(Tail(afterSpace), Space)
        ELSE s

\* re.fullmatch(r"[A-Z]", tok)
IsInitial(tok) == Len(tok) = 1 /\ tok[1] \in AZ

\* clean_name up to "parts = s.split()": the tokens of the normalized field
NameParts(r) ==
    Split(Join(Split(StripLeadingCode(StripLeadingJunk(Strip(Upper(r)))))))

\* the three return branches of clean_name, in the order of the code
CleanParts(parts) ==
    LET n == Len(parts)
    IN  IF n >= 2 /\ IsInitial(parts[n])
        THEN Join(<<parts[n-1], parts[n]>>)
        ELSE IF n >= 3 /\ IsInitial(parts[n]) /\ IsInitial(parts[n-1])
        THEN Join(<<parts[n-2], parts[n-1], parts[n]>>)
        ELSE IF n >= 1
        THEN parts[n]
        ELSE <<>>

clean_name(r) == CleanParts(NameParts(r))

-----------------------------------------------------------------------------
(* SpecName: clean_name on every string over NameAlphabet of length at     *)
(* most MaxRawLen.                                                         *)

NameAlphabet == {"A", "B", "a", " ", "1", "-", "."}

RECURSIVE StringsUpTo(_)
StringsUpTo(n) ==
    IF n = 0 THEN {<<>>}
    ELSE LET S == StringsUpTo(n - 1)
         IN  S \cup {Append(s, c) : s \in {t \in S : Len(t) = n - 1}, c \in NameAlphabet}

InitName ==
    /\ raw \in StringsUpTo(MaxRawLen)
    /\ cleaned = <<>>
    /\ phase = "name_call"
    /\ doc = <<>> /\ current_date = 0 /\ rows = <<>> /\ src = <<>>
    /\ by_date = <<>> /\ names = <<>> /\ require_k = 0 /\ out = <<>>

CleanName ==
    /\ phase = "name_call"
    /\ cleaned' = clean_name(raw)
    /\ phase' = "name_done"
    /\ UNCHANGED <<doc, current_date, rows, src, by_date, raw, names, require_k, out>>

NextName == CleanName

SpecName == InitName /\ [][NextName]_vars

-----------------------------------------------------------------------------
(* Dates and times: datetime.strptime, date.toordinal, datetime.combine    *)

MaxLines == 3

\* current_date = None
NoDate == 0

MonthNames == <<"January","February","March","April","May","June","July",
                "August","September","October","November","December">>

\* %B: the index of a full month name, 0 when the word is none
MonthNum(w) ==
    IF \E i \in DOMAIN MonthNames : MonthNames[i] = w
    THEN CHOOSE i \in DOMAIN MonthNames : MonthNames[i] = w
    ELSE 0

IsLeap(y) == (y % 4 = 0 /\ y % 100 # 0) \/ y % 400 = 0

DaysInMonth(m, y) ==
    IF m = 2 THEN (IF IsLeap(y) THEN 29 ELSE 28)
    ELSE IF m \in {4, 6, 9, 11} THEN 30 ELSE 31

RECURSIVE DaysBeforeMonth(_, _)
DaysBeforeMonth(m, y) ==
    IF m = 1 THEN 0 ELSE DaysBeforeMonth(m - 1, y) + DaysInMonth(m - 1, y)

\* date(y, m, d).toordinal()
ToOrdinal(y, m, d) ==
    LET p == y - 1
    IN  365 * p + (p \div 4) - (p \div 100) + (p \div 400) + DaysBeforeMonth(m, y) + d

\* datetime.strptime(clean, "%A, %B %d, %Y").date() on the groups of
\* DATE_ANYWHERE_RE: [ok |-> FALSE] stands for the ValueError.  The weekday
\* group always is a weekday name, and strptime does not compare it with the
\* date.
StrptimeDate(h) ==
    LET m == MonthNum(h.month)
    IN  IF /\ m # 0
           /\ h.day >= 1 /\ h.day <= 31
           /\ h.year >= 1
           /\ h.day <= DaysInMonth(m, h.year)
        THEN [ok |-> TRUE, value |-> ToOrdinal(h.year, m, h.day)]
        ELSE [ok |-> FALSE, value |-> NoDate]

\* datetime.strptime(c, "%I:%M%p").time() on one side of a shift token
\* (digits h, digits m, meridiem p): minute of day, [ok |-> FALSE] for the
\* ValueError
StrptimeClock(c) ==
    IF c.h >= 1 /\ c.h <= 12 /\ c.m >= 0 /\ c.m <= 59
    THEN [ok |-> TRUE,
          value |-> ((c.h % 12) + (IF c.p = "PM" THEN 12 ELSE 0)) * 60 + c.m]
    ELSE [ok |-> FALSE, value |-> 0]

\* datetime.combine(d, t)
Combine(d, t) == d * 1440 + t

\* if end_dt <= start_dt: end_dt += timedelta(days=1), with < for <=
AdjustEnd_Strict(start_dt, end_dt) ==
    IF end_dt < start_dt THEN end_dt + 1440 ELSE end_dt

\* if end_dt <= start_dt: end_dt += timedelta(days=1)
AdjustEnd(start_dt, end_dt) ==
    IF end_dt <= start_dt THEN end_dt + 1440 ELSE end_dt

-----------------------------------------------------------------------------
(* Lines.  A line is what the two regular expressions see of it:           *)
(*   blank   the line is empty after strip()                               *)
(*   header  <<>>, or <<h>> with h the groups of the first match of        *)
(*           DATE_ANYWHERE_RE                                              *)
(*   tokens  the matches of SHIFT_TOKEN_RE in order, "+" removed, each     *)
(*           split at "-" into its two clock strings                       *)
(*   pre     the text before the first match of SHIFT_TOKEN_RE             *)

Clock(h, m, p) == [h |-> h, m |-> m, p |-> p]

Token(s, e) == [start_s |-> s, end_s |-> e]

T_DAY == Token(Clock(9, 0, "AM"), Clock(5, 0, "PM"))
T_NIGHT == Token(Clock(9, 0, "PM"), Clock(6, 0, "AM"))
T_SAME == Token(Clock(9, 0, "AM"), Clock(9, 0, "AM"))
T_NOON == Token(Clock(12, 0, "PM"), Clock(12, 30, "AM"))
T_MEAL == Token(Clock(1, 0, "PM"), Clock(1, 30, "PM"))
T_HOUR13 == Token(Clock(13, 0, "PM"), Clock(5, 0, "PM"))
T_MIN75 == Token(Clock(9, 0, "AM"), Clock(4, 75, "PM"))
T_HOUR0 == Token(Clock(0, 0, "AM"), Clock(8, 0, "AM"))

N_PAUL == <<"0","2","4"," ","-"," ","P","A","I","N","T"," ","P","A","U","L"," ","G">>
N_ALEX == <<"."," ","A","L","E","X"," ","L">>
N_SCHMIDT == <<"S","C","H","M","I","D","T"," ","J">>
N_TOTAL == <<"T","O","T","A","L"," ","H","O","U","R","S">>
N_NAME == <<"N","A","M","E">>
N_DOTS == <<".",".",".">>

Header(w, mo, d, y) == [weekday |-> w, month |-> mo, day |-> d, year |-> y]

H_MAR3 == Header("Tuesday", "March", 3, 2026)
H_MAR4 == Header("Wednesday", "March", 4, 2026)
H_ABBREV == Header("Tuesday", "Mar", 3, 2026)
H_FEB30 == Header("Monday", "February", 30, 2026)

Line(b, h, p, t) == [blank |-> b, header |-> h, pre |-> p, tokens |-> t]

BlankLine == Line(TRUE, <<>>, <<>>, <<>>)

HeaderLine(h) == Line(FALSE, <<h>>, <<>>, <<>>)

ShiftLine(p, t) == Line(FALSE, <<>>, p, t)

Lines ==
    {BlankLine}
    \cup {HeaderLine(h) : h \in {H_MAR3, H_MAR4, H_ABBREV, H_FEB30}}
    \cup {Line(FALSE, <<H_MAR4>>, N_ALEX, <<T_DAY>>)}
    \cup {ShiftLine(N_TOTAL, <<>>)}
    \cup {ShiftLine(n, <<T_DAY>>) : n \in {N_PAUL, N_SCHMIDT, N_TOTAL, N_NAME, N_DOTS}}
    \cup {ShiftLine(N_ALEX, <<t>>) :
            t \in {T_DAY, T_NIGHT, T_SAME, T_NOON, T_HOUR13, T_MIN75, T_HOUR0}}
    \cup {ShiftLine(N_PAUL, <<T_NIGHT, T_MEAL>>), ShiftLine(N_DOTS, <<T_HOUR13>>)}

-----------------------------------------------------------------------------
(* parse_pdf *)

bad_prefix ==
    {<<"N","A","M","E">>, <<"S","H","I","F","T">>, <<"T","O","T","A","L">>,
     <<"T","I","M","E"," ","P","E","R","I","O","D">>,
     <<"Q","U","E","R","Y">>, <<"P","A","G","E">>, <<"F","C","S","T">>,
     <<"S","C","H">>, <<"O","/","U">>, <<"S","V","F">>}

\* any(name.startswith(x) for x in bad_prefix)
HasBadPrefix(name) == \E x \in bad_prefix : StartsWith(name, x)

\* current_date = d, the cursor kept once it is set
SetDate_KeepFirst(cur, d) == IF cur = NoDate THEN d ELSE cur

\* current_date = d
SetDate(cur, d) == d

\* One iteration of the loop over text.splitlines(): the new current_date,
\* whether strptime raised, and the row appended (<<>> when none is).
LineStep(cur, line) ==
    LET keep   == [date |-> cur, raised |-> FALSE, row |-> <<>>]
        name   == clean_name(Strip(line.pre))
        tok    == line.tokens[1]
        st     == StrptimeClock(tok.start_s)
        en     == StrptimeClock(tok.end_s)
        start  == Combine(cur, st.value)
        end    == AdjustEnd(start, Combine(cur, en.value))
    IN  IF line.blank THEN keep
        ELSE IF line.header # <<>> THEN
            LET d == StrptimeDate(line.header[1])
            IN  IF d.ok THEN [keep EXCEPT !.date = SetDate(cur, d.value)]
                ELSE [keep EXCEPT !.raised = TRUE]
        ELSE IF cur = NoDate THEN keep
        ELSE IF line.tokens = <<>> THEN keep
        ELSE IF name = <<>> THEN keep
        ELSE IF HasBadPrefix(name) THEN keep
        ELSE IF ~st.ok \/ ~en.ok THEN [keep EXCEPT !.raised = TRUE]
        ELSE [keep EXCEPT !.row = <<[date |-> cur, name |-> name,
                                     start_dt |-> start, end_dt |-> end]>>]

Init ==
    /\ doc = <<>>
    /\ current_date = NoDate
    /\ rows = <<>>
    /\ src = <<>>
    /\ phase = "parse"
    /\ by_date = <<>>
    /\ raw = <<>> /\ cleaned = <<>>
    /\ names = <<>> /\ require_k = 0 /\ out = <<>>

\* the loop body of parse_pdf on the next line of the document
ParseLine(line) ==
    /\ phase = "parse"
    /\ Len(doc) < MaxLines
    /\ LET r == LineStep(current_date, line)
       IN  /\ doc' = Append(doc, line)
           /\ current_date' = r.date
           /\ rows' = rows \o r.row
           /\ src' = IF r.row = <<>> THEN src ELSE Append(src, Len(doc) + 1)
           /\ phase' = IF r.raised THEN "raised" ELSE "parse"
    /\ UNCHANGED <<by_date, raw, cleaned, names, require_k, out>>

\* return pd.DataFrame(rows): the document has no further line
Return ==
    /\ phase = "parse"
    /\ phase' = "parsed"
    /\ UNCHANGED <<doc, current_date, rows, src, by_date, raw, cleaned,
                   names, require_k, out>>

\* if df.empty: st.error(...); st.stop()
Stop ==
    /\ phase = "parsed"
    /\ rows = <<>>
    /\ phase' = "stopped"
    /\ UNCHANGED <<doc, current_date, rows, src, by_date, raw, cleaned,
                   names, require_k, out>>

-----------------------------------------------------------------------------
(* by_date: the merged daily shift per person *)

\* agg(start_dt=("start_dt","min"), end_dt=("end_dt","max")), with the end of
\* the last record in place of the latest one
Merge_LastEnd(w, r) ==
    [start_dt |-> IF r.start_dt < w.start_dt THEN r.start_dt ELSE w.start_dt,
     end_dt   |-> r.end_dt]

\* agg(start_dt=("start_dt","min"), end_dt=("end_dt","max")): one more record
\* r of the group folded into its window w
Merge(w, r) ==
    [start_dt |-> IF r.start_dt < w.start_dt THEN r.start_dt ELSE w.start_dt,
     end_dt   |-> IF r.end_dt > w.end_dt THEN r.end_dt ELSE w.end_dt]

\* df.groupby("date") then g.groupby("name"): record r put into its group
AddRow(bd, r) ==
    LET w == [start_dt |-> r.start_dt, end_dt |-> r.end_dt]
    IN  IF r.date \notin DOMAIN bd
        THEN bd @@ (r.date :> (r.name :> w))
        ELSE IF r.name \notin DOMAIN bd[r.date]
        THEN [bd EXCEPT ![r.date] = @ @@ (r.name :> w)]
        ELSE [bd EXCEPT ![r.date][r.name] = Merge(@, r)]

RECURSIVE Aggregate(_, _)
Aggregate(bd, rs) ==
    IF rs = <<>> THEN bd ELSE Aggregate(AddRow(bd, Head(rs)), Tail(rs))

\* by_date = {}; for d, g in df.groupby("date"): by_date[d] = ...
BuildWindows ==
    /\ phase = "parsed"
    /\ rows # <<>>
    /\ by_date' = Aggregate(<<>>, rows)
    /\ phase' = "windows"
    /\ UNCHANGED <<doc, current_date, rows, src, raw, cleaned, names, require_k, out>>

Next ==
    \/ \E line \in Lines : ParseLine(line)
    \/ Return
    \/ Stop
    \/ BuildWindows

Spec == Init /\ [][Next]_vars

-----------------------------------------------------------------------------
(* overlap_days *)

MaxSel == 3

\* names = [clean_name(n) for n in names if n]
CleanEach(kept) == [i \in DOMAIN kept |-> clean_name(kept[i])]

CleanAll(ns) == CleanEach(SelectSeq(ns, LAMBDA n : n # <<>>))

\* list(dict.fromkeys(names)): first occurrences, in order
RECURSIVE Dedup(_)
Dedup(ns) ==
    IF ns = <<>> THEN <<>>
    ELSE <<Head(ns)>> \o Dedup(SelectSeq(Tail(ns), LAMBDA n : n # Head(ns)))

\* if len(uniq) < 3, with 2 for 3
TooFew_Two(uniq) == Len(uniq) < 2

\* if len(uniq) < 3
TooFew(uniq) == Len(uniq) < 3

\* sorted(by_date.keys())
RECURSIVE SortedSeq(_)
SortedSeq(S) ==
    IF S = {} THEN <<>> ELSE <<MinOf(S)>> \o SortedSeq(S \ {MinOf(S)})

PrependAll(x, seqs) == [i \in DOMAIN seqs |-> <<x>> \o seqs[i]]

\* list(itertools.combinations(s, k)) for k >= 0, in itertools' order
RECURSIVE Combinations(_, _)
Combinations(s, k) ==
    IF k = 0 THEN << <<>> >>
    ELSE IF Len(s) < k THEN <<>>
    ELSE PrependAll(Head(s), Combinations(Tail(s), k - 1))
         \o Combinations(Tail(s), k)

\* sub["start_dt"].max() for a group with a member
LatestStart(per, group) == MaxOf({per[group[i]].start_dt : i \in DOMAIN group})

\* sub["end_dt"].min() for a group with a member
EarliestEnd(per, group) == MinOf({per[group[i]].end_dt : i \in DOMAIN group})

\* if latest_start < earliest_end, with <= for <
Overlaps_Touching(per, group) ==
    /\ group # <<>>
    /\ LatestStart(per, group) <= EarliestEnd(per, group)

\* if latest_start < earliest_end.  For the empty group both are NaT (the
\* max and the min of an empty column) and the comparison is False.
Overlaps(per, group) ==
    /\ group # <<>>
    /\ LatestStart(per, group) < EarliestEnd(per, group)

\* (best is None) or (dur > ...), with < for >
Better_Shorter(dur, best) ==
    best = <<>> \/ dur < best[1].earliest_end - best[1].latest_start

\* (best is None) or (dur > (best[1] - best[0]).total_seconds())
Better(dur, best) ==
    best = <<>> \/ dur > best[1].earliest_end - best[1].latest_start

\* (latest_start, earliest_end, group)
Candidate(per, group) ==
    [latest_start |-> LatestStart(per, group),
     earliest_end |-> EarliestEnd(per, group),
     group |-> group]

\* the body of the loop "for group in groups": the new best
Consider(per, group, cand, best) ==
    IF Overlaps(per, group) /\ Better(cand.earliest_end - cand.latest_start, best)
    THEN <<cand>>
    ELSE best

\* the loop "for group in groups": best is <<>> for None
RECURSIVE BestOf(_, _, _)
BestOf(per, groups, best) ==
    IF groups = <<>> THEN best
    ELSE BestOf(per, Tail(groups),
                Consider(per, Head(groups), Candidate(per, Head(groups)), best))

\* round(minutes * 60 / 3600, 2), in hundredths of an hour
RoundHours(minutes) == (10 * minutes + 3) \div 6

\* strftime('%-I:%M %p'): the label of a datetime shows its time of day only
TimeLabel(dt) == dt % 1440

\* The row appended for date d: the unpacked best (latest_start,
\* earliest_end, group) and the columns rendered from it.
OutRow(d, b) ==
    [date |-> d,
     latest_start |-> b.latest_start,
     earliest_end |-> b.earliest_end,
     group |-> b.group,
     common_time |-> <<TimeLabel(b.latest_start), TimeLabel(b.earliest_end)>>,
     duration |-> RoundHours(b.earliest_end - b.latest_start)]

\* if best: out.append({...})
Emit(d, best) ==
    [raised |-> FALSE,
     rows |-> IF best = <<>> THEN <<>> ELSE <<OutRow(d, best[1])>>]

\* One iteration of "for d in sorted(by_date.keys())" with present computed:
\* whether itertools.combinations raised (r < 0) and the rows appended.
GroupStep(per, present, uniq, k, d) ==
    IF Len(present) < k THEN [raised |-> FALSE, rows |-> <<>>]
    ELSE IF k = Len(uniq) THEN Emit(d, BestOf(per, <<present>>, <<>>))
    ELSE IF k < 0 THEN [raised |-> TRUE, rows |-> <<>>]
    ELSE Emit(d, BestOf(per, Combinations(present, k), <<>>))

\* per = by_date[d]; present = [n for n in uniq if n in per.index]; ...
DateStep(bd, uniq, k, d) ==
    GroupStep(bd[d], SelectSeq(uniq, LAMBDA n : n \in DOMAIN bd[d]), uniq, k, d)

Prepend(rs, rest) == [raised |-> rest.raised, rows |-> rs \o rest.rows]

\* the loop over the dates ds, an exception ending it
RECURSIVE DateLoop(_, _, _, _)
AfterStep(r, bd, uniq, k, ds) ==
    IF r.raised THEN r ELSE Prepend(r.rows, DateLoop(bd, uniq, k, ds))

DateLoop(bd, uniq, k, ds) ==
    IF ds = <<>> THEN [raised |-> FALSE, rows |-> <<>>]
    ELSE AfterStep(DateStep(bd, uniq, k, Head(ds)), bd, uniq, k, Tail(ds))

\* overlap_days after uniq is computed
Query(bd, uniq, k) ==
    IF TooFew(uniq) THEN [raised |-> FALSE, rows |-> <<>>]
    ELSE DateLoop(bd, uniq, k, SortedSeq(DOMAIN bd))

\* overlap_days(by_date, names, require_k): [raised, rows]
overlap_days(bd, ns, k) == Query(bd, Dedup(CleanAll(ns)), k)

-----------------------------------------------------------------------------
(* SpecOverlap: overlap_days on the windows of one or two dates for three  *)
(* employees, on every selection of at most MaxSel raw names and every     *)
(* quorum from -1 to MaxSel + 1.                                           *)

E_AL == <<"A","L">>
E_BO == <<"B","O">>
E_CY == <<"C","Y">>

QueryDates == <<ToOrdinal(2026, 3, 3), ToOrdinal(2026, 3, 4)>>

\* merged windows, as offsets in minutes from the date's midnight
WindowChoices == {<<9 * 60, 17 * 60>>, <<12 * 60, 20 * 60>>, <<17 * 60, 18 * 60 + 10>>}

Window(d, c) == [start_dt |-> Combine(d, c[1]), end_dt |-> Combine(d, c[2])]

\* the frames by_date[d] can be: a window for each member of a non-empty
\* set of employees
PerChoices(d) ==
    UNION {[P -> {Window(d, c) : c \in WindowChoices}] :
             P \in (SUBSET {E_AL, E_BO, E_CY}) \ {{}}}

\* the frame of the second date: everybody on the same shift
SecondDay(d) == {[n \in {E_AL, E_BO, E_CY} |-> Window(d, <<9 * 60, 17 * 60>>)]}

ByDateChoices ==
    {(QueryDates[1] :> p) : p \in PerChoices(QueryDates[1])}
    \cup {(QueryDates[1] :> p) @@ (QueryDates[2] :> q) :
            p \in PerChoices(QueryDates[1]), q \in SecondDay(QueryDates[2])}

\* raw names a caller can pass
RawNames == {E_AL, E_BO, E_CY, <<"a","l">>}

RECURSIVE Selections(_)
Selections(n) ==
    IF n = 0 THEN {<<>>}
    ELSE LET S == Selections(n - 1)
         IN  S \cup {Append(s, c) : s \in {t \in S : Len(t) = n - 1}, c \in RawNames}

Quorums == (0 - 1) .. (MaxSel + 1)

InitOverlap ==
    /\ by_date \in ByDateChoices
    /\ phase = "query"
    /\ names = <<>> /\ require_k = 0 /\ out = <<>>
    /\ doc = <<>> /\ current_date = NoDate /\ rows = <<>> /\ src = <<>>
    /\ raw = <<>> /\ cleaned = <<>>

\* the call ends with the frame of r.rows, or with the exception
Finish(r) ==
    /\ out' = r.rows
    /\ phase' = IF r.raised THEN "raised" ELSE "returned"

\* res = overlap_days(by_date, selected, require_k=require_k)
OverlapDays(ns, k) ==
    /\ phase = "query"
    /\ names' = ns
    /\ require_k' = k
    /\ Finish(overlap_days(by_date, ns, k))
    /\ UNCHANGED <<doc, current_date, rows, src, by_date, raw, cleaned>>

NextOverlap ==
    /\ phase = "query"
    /\ \E ns \in Selections(MaxSel), k \in Quorums : OverlapDays(ns, k)

SpecOverlap == InitOverlap /\ [][NextOverlap]_vars

-----------------------------------------------------------------------------
(* Properties of overlap_days, checked under SpecOverlap *)

Called == phase \in {"returned", "raised"}

\* the distinct normalized names of the selection
Selected == {clean_name(names[i]) : i \in {j \in DOMAIN names : names[j] # <<>>}}

\* the candidate groups of date d for the selected set sel: the whole
\* selection when the quorum is its size and all are present, else the
\* quorum-size sets of present names
Candidates(sel, d) ==
    IF require_k = Cardinality(sel)
    THEN (IF sel \subseteq DOMAIN by_date[d] THEN {sel} ELSE {})
    ELSE {G \in SUBSET (sel \cap DOMAIN by_date[d]) : Cardinality(G) = require_k}

Start(d, G) == MaxOf({by_date[d][n].start_dt : n \in G})

End(d, G) == MinOf({by_date[d][n].end_dt : n \in G})

Overlapping(sel, d) == {G \in Candidates(sel, d) : G # {} /\ Start(d, G) < End(d, G)}

RowsOf(d) == {i \in DOMAIN out : out[i].date = d}

OutOfRange(sel) ==
    Cardinality(sel) >= 3 /\ (require_k < 2 \/ require_k > Cardinality(sel))

\* C2: with at least 3 distinct names selected, a quorum outside
\* [2, number of distinct names] gives an empty result and no error.
C2_QuorumOutOfRangeIsEmpty ==
    (Called /\ OutOfRange(Selected)) => (phase = "returned" /\ out = <<>>)

RowIsLongest(d, i, ov) ==
    /\ Range(out[i].group) \in ov
    /\ out[i].latest_start = Start(d, Range(out[i].group))
    /\ out[i].earliest_end = End(d, Range(out[i].group))
    /\ \A G \in ov :
         out[i].earliest_end - out[i].latest_start >= End(d, G) - Start(d, G)
    /\ out[i].duration = RoundHours(MaxOf({End(d, G) - Start(d, G) : G \in ov}))

RowIffOverlap(d, rs, ov) ==
    /\ (rs # {}) <=> (ov # {})
    /\ Cardinality(rs) <= 1
    /\ \A i \in rs : RowIsLongest(d, i, ov)

RowsAsClaimed(sel) ==
    Cardinality(sel) >= 3 =>
        \A d \in DOMAIN by_date : RowIffOverlap(d, RowsOf(d), Overlapping(sel, d))

LongestPairWins(sel, d, ov) ==
    /\ sel \subseteq DOMAIN by_date[d]
    /\ Start(d, sel) >= End(d, sel)
    /\ Cardinality(ov) >= 2
    /\ \E G \in ov, i \in RowsOf(d) :
         End(d, G) - Start(d, G) < out[i].earliest_end - out[i].latest_start

RelaxedCase(sel) ==
    /\ Cardinality(sel) = 3
    /\ \E d \in DOMAIN by_date : LongestPairWins(sel, d, Overlapping(sel, d))

C4_FewerThanThreeIsEmpty ==
    (Called /\ Cardinality(Selected) < 3) => (phase = "returned" /\ out = <<>>)

TwoOverlap(sel) ==
    /\ Cardinality(sel) = 2
    /\ \E d \in DOMAIN by_date :
         sel \subseteq DOMAIN by_date[d] /\ Start(d, sel) < End(d, sel)

\* C4 witness: three names given, two of them distinct after normalization,
\* both present with overlapping windows, quorum 2.
C4_Witness ==
    phase = "returned" /\ Len(names) >= 3 /\ require_k = 2 /\ TwoOverlap(Selected)

\* C5: every emitted row has window_start strictly before window_end.
C5_NoTouch ==
    \A i \in DOMAIN out : out[i].latest_start < out[i].earliest_end

RowBesideTouch(sel) ==
    /\ Cardinality(sel) >= 3
    /\ \E d \in DOMAIN by_date :
         /\ RowsOf(d) # {}
         /\ \E G \in Candidates(sel, d) : G # {} /\ Start(d, G) = End(d, G)

\* C5 witness: a row is emitted on a date where another candidate group only
\* touches (latest_start = earliest_end).
C5_Witness == phase = "returned" /\ RowBesideTouch(Selected)

-----------------------------------------------------------------------------
(* Properties of clean_name, checked under SpecName *)

LastTwoInitials(parts) ==
    /\ Len(parts) >= 3
    /\ IsInitial(parts[Len(parts)])
    /\ IsInitial(parts[Len(parts) - 1])

LastOnlyInitial(parts) ==
    /\ Len(parts) >= 2
    /\ IsInitial(parts[Len(parts)])
    /\ ~IsInitial(parts[Len(parts) - 1])

TrailingInitialsKept(parts) ==
    /\ LastTwoInitials(parts) =>
         cleaned = Join(SubSeq(parts, Len(parts) - 2, Len(parts)))
    /\ LastOnlyInitial(parts) =>
         cleaned = Join(SubSeq(parts, Len(parts) - 1, Len(parts)))

\* C9: when the normalized field has at least three tokens and its last two
\* are single letters, clean_name returns the last three tokens; when only
\* the last is a single letter, it returns the last two.
C9_TrailingInitials == phase = "name_done" => TrailingInitialsKept(NameParts(raw))

-----------------------------------------------------------------------------
(* Properties of parse_pdf and by_date, checked under Spec *)

IsHeaderLine(l) == ~l.blank /\ l.header # <<>>

\* the lines before line i that carry a date header
HeadersBefore(i) == {j \in 1..(i - 1) : IsHeaderLine(doc[j])}

\* the lines that appended a row
Sources == Range(src)

ClockOk(c) == c.h \in 1..12 /\ c.m \in 0..59

\* minute of day of a 12-hour clock string
Minutes(c) == (IF c.h = 12 THEN 0 ELSE c.h * 60) + (IF c.p = "PM" THEN 720 ELSE 0) + c.m

\* line i is a shift line under a date: not blank, no header, a time-range
\* token, and a header line whose date parses somewhere before it
ShiftLineUnderDate(i) ==
    /\ ~doc[i].blank
    /\ doc[i].header = <<>>
    /\ doc[i].tokens # <<>>
    /\ \E j \in HeadersBefore(i) : StrptimeDate(doc[j].header[1]).ok

FirstTokenOk(i) ==
    ClockOk(doc[i].tokens[1].start_s) /\ ClockOk(doc[i].tokens[1].end_s)

\* the normalized name field of line i is empty or starts with a label
NameRejected(i) ==
    \/ clean_name(doc[i].pre) = <<>>
    \/ HasBadPrefix(clean_name(doc[i].pre))

\* C1: extraction never aborts; a line with an unparseable time token or an
\* unparseable date header is discarded alone, and every well-formed shift
\* line under a date still has its record.
C1_BadLineDiscardedAlone ==
    /\ phase # "raised"
    /\ \A i \in DOMAIN doc :
         (ShiftLineUnderDate(i) /\ FirstTokenOk(i) /\ ~NameRejected(i))
             => i \in Sources

RowMatchesToken(r, tok) ==
    /\ r.start_dt = r.date * 1440 + Minutes(tok.start_s)
    /\ r.end_dt = r.date * 1440 + Minutes(tok.end_s)
                  + (IF Minutes(tok.end_s) <= Minutes(tok.start_s) THEN 1440 ELSE 0)
    /\ r.end_dt > r.start_dt

\* C6: every record has end > start; its end is the end clock time on the
\* record's date, plus one day exactly when the end clock time is less than
\* or equal to the start clock time.
C6_Overnight ==
    \A k \in DOMAIN rows : RowMatchesToken(rows[k], doc[src[k]].tokens[1])

\* C6 witness: a record whose end clock time equals its start clock time and
\* a record whose end clock time is before its start clock time.
C6_Witness ==
    /\ \E k \in DOMAIN rows :
         Minutes(doc[src[k]].tokens[1].end_s) = Minutes(doc[src[k]].tokens[1].start_s)
    /\ \E k \in DOMAIN rows :
         Minutes(doc[src[k]].tokens[1].end_s) < Minutes(doc[src[k]].tokens[1].start_s)

RowsFor(d, n) == {k \in DOMAIN rows : rows[k].date = d /\ rows[k].name = n}

\* C7: by_date has exactly the (date, employee) pairs that have a record,
\* one window each, from the minimum record start to the maximum record end.
C7_WindowCollapsing ==
    phase = "windows" =>
        /\ DOMAIN by_date = {rows[k].date : k \in DOMAIN rows}
        /\ \A d \in DOMAIN by_date :
             /\ DOMAIN by_date[d] = {rows[k].name : k \in {j \in DOMAIN rows : rows[j].date = d}}
             /\ \A n \in DOMAIN by_date[d] :
                  /\ by_date[d][n].start_dt = MinOf({rows[k].start_dt : k \in RowsFor(d, n)})
                  /\ by_date[d][n].end_dt = MaxOf({rows[k].end_dt : k \in RowsFor(d, n)})

\* C7 witness: two records of one (date, employee) pair, the later one in
\* the document ending first.
C7_Witness ==
    /\ phase = "windows"
    /\ \E k1, k2 \in DOMAIN rows :
         /\ k1 < k2
         /\ rows[k1].date = rows[k2].date
         /\ rows[k1].name = rows[k2].name
         /\ rows[k2].end_dt < rows[k1].end_dt

RowUnderLastHeader(k) ==
    /\ ~IsHeaderLine(doc[src[k]])
    /\ HeadersBefore(src[k]) # {}
    /\ rows[k].date = StrptimeDate(doc[MaxOf(HeadersBefore(src[k]))].header[1]).value

\* C8: every record's date is the date of the last header line before its
\* source line; no record comes from a line before the first header line or
\* from a header line, and a line gives at most one record.
C8_DateCursor ==
    /\ \A k \in DOMAIN rows : RowUnderLastHeader(k)
    /\ \A i \in DOMAIN doc : IsHeaderLine(doc[i]) => i \notin Sources
    /\ \A k1, k2 \in DOMAIN src : k1 < k2 => src[k1] < src[k2]

\* C8 witness: a record after two header lines of different dates, the later
\* of which also holds a time-range token.
C8_Witness ==
    \E k \in DOMAIN rows :
        /\ Cardinality(HeadersBefore(src[k])) >= 2
        /\ doc[MaxOf(HeadersBefore(src[k]))].tokens # <<>>
        /\ \E j \in HeadersBefore(src[k]) :
             StrptimeDate(doc[j].header[1]).value # rows[k].date

\* a known non-person label, exactly; the two-word labels of the report
\* are matched on the normalized field
IsLabel(pre) ==
    \/ clean_name(pre) \in bad_prefix
    \/ Join(NameParts(pre)) \in bad_prefix \cup {N_TOTAL}

\* C10: a line under a current date with a valid time-range token is
\* discarded exactly when its name field normalizes to the empty string or
\* is a known non-person label; every other such line yields exactly one
\* record, built from the first token.
C10_NonPersonFilter ==
    \A i \in DOMAIN doc :
        (ShiftLineUnderDate(i) /\ FirstTokenOk(i) /\ phase # "raised") =>
            /\ (i \notin Sources) <=> (clean_name(doc[i].pre) = <<>> \/ IsLabel(doc[i].pre))
            /\ Cardinality({k \in DOMAIN src : src[k] = i}) <= 1
            /\ \A k \in DOMAIN src :
                 src[k] = i => rows[k].start_dt
                                 = rows[k].date * 1440 + Minutes(doc[i].tokens[1].start_s)

=============================================================================
